---- MODULE Spec2Model ----
(***************************************************************************)
(* Model of src/app.py: an in-memory to-do store (tasks, next_id) served   *)
(* by a REST API and by a conversational endpoint that routes the reply of *)
(* an LLM to a tool executor working on the same store.                    *)
(*                                                                         *)
(* Strings are sequences of one-character strings.  JSON values are        *)
(* records with a kind tag, so that the (x or "") idiom, .get on a value   *)
(* that is not a mapping and .strip() on a value that is not a string      *)
(* behave as they do in Python (the last two raise AttributeError, which   *)
(* Flask turns into a 500 response).                                       *)
(***************************************************************************)
EXTENDS Naturals, Sequences, FiniteSets

VARIABLES tasks,          \* app.py:20  list of task dicts, in list order
          next_id,        \* app.py:21  the id counter
          openai_client,  \* app.py:79  TRUE iff _openai_client is not None
          resp,           \* what the last request did, as a client and the log see it
          assigned_ids    \* history: every id a task of the list has ever had

vars == <<tasks, next_id, openai_client, resp, assigned_ids>>

----------------------------------------------------------------------------
(* Bounds of the exploration.                                              *)

\* The exploration stops creating tasks once next_id has passed MaxId.
MaxId == 2

----------------------------------------------------------------------------
(* Strings.                                                                *)

Space == " "

\* str.strip(): drops leading and trailing whitespace, keeps inner whitespace.
RECURSIVE lstrip(_)
lstrip(s) == IF s # <<>> /\ Head(s) = Space THEN lstrip(Tail(s)) ELSE s

RECURSIVE rstrip(_)
rstrip(s) ==
    IF s # <<>> /\ s[Len(s)] = Space THEN rstrip(SubSeq(s, 1, Len(s) - 1)) ELSE s

strip(s) == rstrip(lstrip(s))

\* str.lower(): maps every cased character to its lowercase form.
lower_char(c) == CASE c = "A" -> "a" [] c = "B" -> "b" [] OTHER -> c

lower(s) == [i \in 1..Len(s) |-> lower_char(s[i])]

\* Request strings the properties range over.
SampleStrings ==
    { <<>>, <<" ">>, <<"a">>, <<" ", "a">>, <<"A", " ">>, <<" ", "A", " ">>,
      <<"b">>, <<"B">> }

\* Timestamps _now_iso() may return in the exploration.
Times == {0, 1}

----------------------------------------------------------------------------
(* JSON values.  A field value is [k, s]: k is its kind, s its text when   *)
(* it is a string.                                                         *)

Val(k, s) == [k |-> k, s |-> s]
Absent == Val("absent", <<>>)    \* key not present: dict.get gives None
Null   == Val("null", <<>>)      \* JSON null
Falsy  == Val("falsy", <<>>)     \* 0, false, [] or {}: falsy, not a string
Other  == Val("other", <<>>)     \* a truthy value that is not a string
Str(s) == Val("str", s)

FieldValues == {Absent, Null, Falsy, Other} \cup {Str(s) : s \in SampleStrings}

\* Python (v or ""): every falsy value becomes the empty string.
or_empty(v) ==
    IF v.k \in {"absent", "null", "falsy"} \/ (v.k = "str" /\ v.s = <<>>)
    THEN Str(<<>>) ELSE v

\* A request body as request.get_json(silent=True) sees it.
NoBody == [k |-> "none", field |-> Absent]      \* no JSON, bad JSON or falsy JSON
NonObjectBody == [k |-> "nonobj", field |-> Absent] \* truthy JSON, not an object
ObjectBody(v) == [k |-> "obj", field |-> v]     \* object; field = the key read

Bodies == {NoBody, NonObjectBody} \cup {ObjectBody(v) : v \in FieldValues}

\* (data.get(key) or "").strip() on (request.get_json(silent=True) or {}):
\* the stripped text, or raised when the body has no .get or the value no .strip.
read_field(body) ==
    IF body.k = "nonobj" THEN [raised |-> TRUE, s |-> <<>>]
    ELSE LET v == or_empty(IF body.k = "none" THEN Absent ELSE body.field)
         IN IF v.k = "str" THEN [raised |-> FALSE, s |-> strip(v.s)]
            ELSE [raised |-> TRUE, s |-> <<>>]

----------------------------------------------------------------------------
(* The task store.                                                         *)

Task(id, description, completed, created_at) ==
    [id |-> id, description |-> description,
     completed |-> completed, created_at |-> created_at]

\* Variant: the lookup compares without lowercasing.
find_task_by_desc_exact_case(desc) ==
    LET d == strip(desc)
        hits == {i \in 1..Len(tasks) : strip(tasks[i].description) = d}
    IN IF hits = {} THEN 0 ELSE CHOOSE i \in hits : \A j \in hits : i <= j

\* _find_task_by_desc: index of the first task of the list whose stripped,
\* lowercased description equals the stripped, lowercased argument; 0 is None.
find_task_by_desc(desc) ==
    LET d == lower(strip(desc))
        hits == {i \in 1..Len(tasks) : lower(strip(tasks[i].description)) = d}
    IN IF hits = {} THEN 0 ELSE CHOOSE i \in hits : \A j \in hits : i <= j

\* Variant: the delete drops every task with the description of x, up to case.
list_remove_duplicates(seq, x) ==
    LET Keep(t) == lower(t.description) # lower(x.description)
    IN SelectSeq(seq, Keep)

\* list.remove(x): drops the first element equal to x.
list_remove(seq, x) ==
    LET hits == {i \in 1..Len(seq) : seq[i] = x}
        k == CHOOSE i \in hits : \A j \in hits : i <= j
    IN SubSeq(seq, 1, k - 1) \o SubSeq(seq, k + 1, Len(seq))

\* Variant: completing flips the flag.
toggle_completed(seq, i) == [seq EXCEPT ![i].completed = ~@]

\* Variant: completing stamps the task anew.
set_completed_restamped(seq, i) ==
    [seq EXCEPT ![i].completed = TRUE, ![i].created_at = 0]

\* task["completed"] = True on the dict found at index i.
set_completed(seq, i) == [seq EXCEPT ![i].completed = TRUE]

----------------------------------------------------------------------------
(* REST API.  A handler is an operator from the current store and the      *)
(* request to the HTTP response and the store it leaves.                   *)

Response(status, body, t, n) ==
    [status |-> status, body |-> body, tasks |-> t, next_id |-> n]

\* An exception that escapes a view function: Flask answers 500.  Every raise
\* in app.py happens before the handler's first write to the store.
Raised == Response(500, [exception |-> "AttributeError"], tasks, next_id)

\* jsonify({"tasks": tasks})
list_body(t) == [tasks |-> t]

\* GET /api/tasks
get_tasks == Response(200, list_body(tasks), tasks, next_id)

\* Variant: the id is taken from the length of the list.
create_task_id_from_length(body, now) ==
    LET f == read_field(body)
        task == Task(Len(tasks) + 1, f.s, FALSE, now)
    IN IF f.raised THEN Raised
       ELSE IF f.s = <<>>
       THEN Response(400, [error |-> "description is required"], tasks, next_id)
       ELSE Response(201, task, Append(tasks, task), next_id + 1)

\* POST /api/tasks
create_task(body, now) ==
    LET f == read_field(body)
        task == Task(next_id, f.s, FALSE, now)
    IN IF f.raised THEN Raised
       ELSE IF f.s = <<>>
       THEN Response(400, [error |-> "description is required"], tasks, next_id)
       ELSE Response(201, task, Append(tasks, task), next_id + 1)

\* PATCH /api/tasks/by-description
complete_task_by_description(body) ==
    LET f == read_field(body)
        i == find_task_by_desc(f.s)
    IN IF f.raised THEN Raised
       ELSE IF f.s = <<>>
       THEN Response(400, [error |-> "description is required"], tasks, next_id)
       ELSE IF i = 0
       THEN Response(404, [error |-> "task not found"], tasks, next_id)
       ELSE LET t == set_completed(tasks, i)
            IN Response(200, t[i], t, next_id)

\* DELETE /api/tasks/by-description
delete_task_by_description(body) ==
    LET f == read_field(body)
        i == find_task_by_desc(f.s)
    IN IF f.raised THEN Raised
       ELSE IF f.s = <<>>
       THEN Response(400, [error |-> "description is required"], tasks, next_id)
       ELSE IF i = 0
       THEN Response(404, [error |-> "task not found"], tasks, next_id)
       ELSE Response(200, [ok |-> TRUE, deleted_description |-> f.s],
                     list_remove(tasks, tasks[i]), next_id)

----------------------------------------------------------------------------
(* The LLM's answer.  A completion is a sequence of tokens: a backtick, a   *)
(* newline, a blank, a letter, or one JSON document J carrying the value    *)
(* json.loads would build from it.                                         *)

ToolNames == {"addTask", "completeTask", "deleteTask", "viewTasks"}

Params(k, v) == [k |-> k, description |-> v]
ParamsAbsent == Params("absent", Absent)  \* no "parameters" key
ParamsNull   == Params("null", Absent)    \* "parameters": null
ParamsOther  == Params("other", Absent)   \* a list, a string or a number
ParamsMap(v) == Params("map", v)          \* a mapping; v = its "description"

\* A JSON object with its "function" ("<absent>": no such key, "<list>": an
\* unhashable value) and "parameters"; or a JSON document that is no object.
Tool(fn, p) == [t |-> "obj", function |-> fn, parameters |-> p]
NonObjectJson == [t |-> "nonobj", function |-> "<absent>", parameters |-> ParamsAbsent]
NoJson == [t |-> "none", function |-> "<absent>", parameters |-> ParamsAbsent]

\* A completion is a sequence of tokens: single characters, and J(v) for the
\* text of a JSON document v written on one line.
Ch(c) == [c |-> c, j |-> NoJson]
J(v)  == [c |-> "J", j |-> v]
Backtick == Ch("backtick")
Newline  == Ch("newline")
Blank    == Ch("blank")
Letter   == Ch("letter")

Whitespace == {Blank, Newline}

\* str.strip(chars): drops leading and trailing tokens that are in chars.
RECURSIVE lstrip_tokens(_, _)
lstrip_tokens(s, chars) ==
    IF s # <<>> /\ Head(s) \in chars THEN lstrip_tokens(Tail(s), chars) ELSE s

RECURSIVE rstrip_tokens(_, _)
rstrip_tokens(s, chars) ==
    IF s # <<>> /\ s[Len(s)] \in chars
    THEN rstrip_tokens(SubSeq(s, 1, Len(s) - 1), chars) ELSE s

strip_tokens(s, chars) == rstrip_tokens(lstrip_tokens(s, chars), chars)

\* s.split(newline, 1)[-1]: what follows the first newline, or all of s.
after_first_newline(s) ==
    LET nl == {i \in 1..Len(s) : s[i] = Newline}
    IN IF nl = {} THEN s
       ELSE SubSeq(s, (CHOOSE i \in nl : \A k \in nl : i <= k) + 1, Len(s))

startswith_fence(s) ==
    Len(s) >= 3 /\ s[1] = Backtick /\ s[2] = Backtick /\ s[3] = Backtick

\* _strip_fences
strip_fences(s) ==
    IF s = <<>> THEN s
    ELSE LET s1 == strip_tokens(s, Whitespace)
             s2 == IF startswith_fence(s1)
                   THEN after_first_newline(strip_tokens(s1, {Backtick})) ELSE s1
         IN strip_tokens(s2, Whitespace)

\* json.loads: succeeds on exactly one JSON document (blanks around it allowed).
json_loads(s) ==
    LET t == strip_tokens(s, Whitespace)
    IN IF Len(t) = 1 /\ t[1].c = "J" THEN [ok |-> TRUE, data |-> t[1].j]
       ELSE [ok |-> FALSE, data |-> NoJson]

\* What the chat-completion call does: raises, or returns a completion.
Completion(content) == [o |-> "content", content |-> content]
CallRaises == [o |-> "raise", content |-> <<>>]

Route(mode, reply, tool) == [mode |-> mode, reply |-> reply, tool |-> tool]
RouteNone == Route("none", <<>>, NoJson)

\* Variant: the router takes every JSON object for a tool intent.
llm_route_any_object(outcome) ==
    IF ~openai_client THEN RouteNone
    ELSE IF outcome.o = "raise" THEN RouteNone
    ELSE LET content == strip_fences(outcome.content)
             parsed == json_loads(content)
         IN IF parsed.ok /\ parsed.data.t = "obj"
            THEN Route("tool", <<>>, parsed.data)
            ELSE Route("text", content, NoJson)

\* llm_route.  data.get on a document that is no object and (fn in {...}) on an
\* unhashable fn raise inside the inner try, which falls through to text.
llm_route(outcome) ==
    IF ~openai_client THEN RouteNone
    ELSE IF outcome.o = "raise" THEN RouteNone
    ELSE LET content == strip_fences(outcome.content)
             parsed == json_loads(content)
         IN IF parsed.ok /\ parsed.data.t = "obj"
               /\ parsed.data.function \in ToolNames
            THEN Route("tool", <<>>, parsed.data)
            ELSE Route("text", content, NoJson)

----------------------------------------------------------------------------
(* Tool executor and conversational endpoint.                              *)

\* Variant: the executor does not strip the description.
read_description_unstripped(p) ==
    IF p.k \in {"null", "other"} THEN [raised |-> TRUE, s |-> <<>>]
    ELSE LET v == or_empty(IF p.k = "absent" THEN Absent ELSE p.description)
         IN IF v.k = "str" THEN [raised |-> FALSE, s |-> v.s]
            ELSE [raised |-> TRUE, s |-> <<>>]

\* (p.get("description") or "").strip() with p = tool.get("parameters", {}):
\* p.get raises when p is None or not a mapping, .strip() when the
\* description is a truthy value that is not a string.
read_description(p) ==
    IF p.k \in {"null", "other"} THEN [raised |-> TRUE, s |-> <<>>]
    ELSE LET v == or_empty(IF p.k = "absent" THEN Absent ELSE p.description)
         IN IF v.k = "str" THEN [raised |-> FALSE, s |-> strip(v.s)]
            ELSE [raised |-> TRUE, s |-> <<>>]

Executed(result, t, n) ==
    [raised |-> FALSE, result |-> result, tasks |-> t, next_id |-> n]

ExecutorRaised ==
    [raised |-> TRUE, result |-> [exception |-> "AttributeError"],
     tasks |-> tasks, next_id |-> next_id]

\* _execute_tool
execute_tool(tool, now) ==
    LET fn == tool.function
        d == read_description(tool.parameters)
        i == find_task_by_desc(d.s)
    IN CASE fn = "addTask" ->
              IF d.raised THEN ExecutorRaised
              ELSE IF d.s = <<>>
              THEN Executed([error |-> "description required"], tasks, next_id)
              ELSE LET task == Task(next_id, d.s, FALSE, now)
                   IN Executed([ok |-> TRUE, task |-> task],
                               Append(tasks, task), next_id + 1)
         [] fn = "viewTasks" ->
              Executed([ok |-> TRUE, tasks |-> tasks], tasks, next_id)
         [] fn = "completeTask" ->
              IF d.raised THEN ExecutorRaised
              ELSE IF i = 0 THEN Executed([error |-> "not found"], tasks, next_id)
              ELSE LET t == set_completed(tasks, i)
                   IN Executed([ok |-> TRUE, task |-> t[i]], t, next_id)
         [] fn = "deleteTask" ->
              IF d.raised THEN ExecutorRaised
              ELSE IF i = 0 THEN Executed([error |-> "not found"], tasks, next_id)
              ELSE Executed([ok |-> TRUE, deleted_description |-> d.s],
                            list_remove(tasks, tasks[i]), next_id)
         [] OTHER -> Executed([error |-> "unknown"], tasks, next_id)

\* result.get("ok")
get_ok(result) == "ok" \in DOMAIN result

\* A reply: the template, the description it quotes, the count it reports, or
\* the completion it carries.
Reply(template, quoted, count, text) ==
    [template |-> template, quoted |-> quoted, count |-> count, text |-> text]

\* Variant: the reply confirms without looking at the result.
synthesize_reply_unchecked(tool, x) ==
    LET fn == tool.function
        quoted == tool.parameters.description.s
    IN CASE fn = "addTask" -> Reply("Added", quoted, 0, <<>>)
         [] fn = "completeTask" -> Reply("Marked", quoted, 0, <<>>)
         [] fn = "deleteTask" -> Reply("Deleted", quoted, 0, <<>>)
         [] fn = "viewTasks" -> Reply("You have", <<>>, Len(x.tasks), <<>>)
         [] OTHER -> Reply("OK", <<>>, 0, <<>>)

\* The reply chain of brain_execute (app.py:192-196).
synthesize_reply(tool, x) ==
    LET fn == tool.function
        quoted == tool.parameters.description.s
    IN CASE fn = "addTask" /\ get_ok(x.result) -> Reply("Added", quoted, 0, <<>>)
         [] fn = "completeTask" /\ get_ok(x.result) -> Reply("Marked", quoted, 0, <<>>)
         [] fn = "deleteTask" /\ get_ok(x.result) -> Reply("Deleted", quoted, 0, <<>>)
         [] fn = "viewTasks" -> Reply("You have", <<>>, Len(x.tasks), <<>>)
         [] OTHER -> Reply("OK", <<>>, 0, <<>>)

\* POST /api/brain/execute
brain_execute(body, outcome, now) ==
    LET msg == read_field(body)
        llm == llm_route(outcome)
        x == execute_tool(llm.tool, now)
    IN IF msg.raised THEN Raised
       ELSE IF llm.mode = "none"
       THEN Response(200, [mode |-> "text",
                           reply |-> Reply("Sorry, I can't do that.", <<>>, 0, <<>>)],
                     tasks, next_id)
       ELSE IF llm.mode = "text"
       THEN Response(200, [mode |-> "text", reply |-> Reply("text", <<>>, 0, llm.reply)],
                     tasks, next_id)
       ELSE IF x.raised THEN Raised
       ELSE Response(200, [mode |-> "tool", tool |-> llm.tool, result |-> x.result,
                           reply |-> synthesize_reply(llm.tool, x)],
                     x.tasks, x.next_id)

----------------------------------------------------------------------------------------------------------------------------------------
(* State machine.  resp keeps what the last request did: the endpoint, the *)
(* status, the error or ok of the body, for the conversational endpoint    *)
(* the routing mode, the function and the reply template, the description  *)
(* a delete reports, and whether the store changed.                        *)

Observed(op, status, result, mode, fn, reply, desc, changed) ==
    [op |-> op, status |-> status, result |-> result, mode |-> mode, fn |-> fn,
     reply |-> reply, desc |-> desc, changed |-> changed]

NoResponse == Observed("none", 0, "", "", "", "", <<>>, FALSE)

\* The error of a body, "ok" when it has none.
result_of(body) ==
    IF "error" \in DOMAIN body THEN body.error
    ELSE IF "exception" \in DOMAIN body THEN "exception" ELSE "ok"

deleted_description_of(body) ==
    IF "deleted_description" \in DOMAIN body THEN body.deleted_description ELSE <<>>

observe_rest(op, r) ==
    Observed(op, r.status, result_of(r.body), "", "", "",
             deleted_description_of(r.body),
             r.tasks # tasks \/ r.next_id # next_id)

\* msg: the reading of the message (mode "unread" when it raised); llm: the
\* routing result of the request.
observe_brain(r, msg, llm) ==
    LET changed == r.tasks # tasks \/ r.next_id # next_id
    IN IF msg.raised
       THEN Observed("brain", r.status, "exception", "unread", "", "", <<>>, changed)
       ELSE IF r.status # 200
       THEN Observed("brain", r.status, "exception", llm.mode, llm.tool.function,
                     "", <<>>, changed)
       ELSE IF r.body.mode = "text"
       THEN Observed("brain", 200, "", "text", "", r.body.reply.template, <<>>, changed)
       ELSE Observed("brain", 200, result_of(r.body.result), "tool",
                     r.body.tool.function, r.body.reply.template,
                     deleted_description_of(r.body.result), changed)

ids_of(t) == {t[i].id : i \in 1..Len(t)}

WithinBounds(t, n) == n <= MaxId + 1

Commit(r, observed) ==
    /\ WithinBounds(r.tasks, r.next_id)
    /\ tasks' = r.tasks
    /\ next_id' = r.next_id
    /\ resp' = observed
    /\ assigned_ids' = assigned_ids \cup ids_of(r.tasks)
    /\ UNCHANGED openai_client

GetTasks == LET r == get_tasks IN Commit(r, observe_rest("GET", r))

CreateTask(body, now) ==
    LET r == create_task(body, now) IN Commit(r, observe_rest("POST", r))

CompleteTask(body) ==
    LET r == complete_task_by_description(body) IN Commit(r, observe_rest("PATCH", r))

DeleteTask(body) ==
    LET r == delete_task_by_description(body) IN Commit(r, observe_rest("DELETE", r))

BrainExecute(body, outcome, now) ==
    LET r == brain_execute(body, outcome, now)
    IN Commit(r, observe_brain(r, read_field(body), llm_route(outcome)))

----------------------------------------------------------------------------
(* Inputs.  The full sets are what the properties range over; the requests *)
(* the state machine sends are a part of them that reaches every store and *)
(* every kind of response.                                                 *)

DescriptionTools ==
    { Tool(fn, p) : fn \in {"addTask", "completeTask", "deleteTask"},
                    p \in {ParamsAbsent, ParamsNull, ParamsOther}
                          \cup {ParamsMap(v) : v \in FieldValues} }

ViewTools == { Tool("viewTasks", p) : p \in {ParamsAbsent, ParamsNull, ParamsMap(Absent)} }

\* JSON objects whose function is not one of the four tool names.
UnknownTools ==
    { Tool(fn, p) : fn \in {"frobnicate", "<absent>", "<list>"},
                    p \in {ParamsAbsent, ParamsNull, ParamsMap(Str(<<"b">>))} }

JsonDocuments == DescriptionTools \cup ViewTools \cup UnknownTools \cup {NonObjectJson}

\* The shapes a completion wraps its JSON document in.
Fenced(doc) ==
    { <<J(doc)>>,
      <<Blank, J(doc), Newline>>,
      <<Backtick, Backtick, Backtick, Newline, J(doc), Newline,
        Backtick, Backtick, Backtick>>,
      <<Backtick, Backtick, Backtick, Letter, Newline, J(doc), Newline,
        Backtick, Backtick, Backtick>>,
      <<Backtick, Backtick, Backtick, J(doc), Backtick, Backtick, Backtick>>,
      <<Backtick, Backtick, Backtick, Letter, Blank, J(doc),
        Backtick, Backtick, Backtick>>,
      <<Letter, Blank, J(doc)>>,
      <<Backtick, J(doc), Backtick>> }

PlainTexts ==
    { <<>>, <<Letter>>, <<Blank, Letter, Blank, Letter, Newline>>,
      <<Backtick, Backtick, Backtick, Letter, Backtick, Backtick, Backtick>>,
      <<Backtick, Backtick, Backtick>> }

\* Documents the fence shapes are tried on.
FencedDocuments ==
    { Tool("addTask", ParamsMap(Str(<<"b">>))), Tool("viewTasks", ParamsAbsent),
      Tool("frobnicate", ParamsAbsent), NonObjectJson }

Contents ==
    { <<J(doc)>> : doc \in JsonDocuments }
    \cup UNION { Fenced(doc) : doc \in FencedDocuments }
    \cup PlainTexts

Outcomes == {CallRaises} \cup {Completion(c) : c \in Contents}

\* Requests the state machine sends.
SentBodies ==
    { NoBody, NonObjectBody, ObjectBody(Other), ObjectBody(Str(<<" ">>)),
      ObjectBody(Str(<<" ", "a">>)), ObjectBody(Str(<<"A", " ">>)),
      ObjectBody(Str(<<"b">>)) }

SentTools ==
    { Tool(fn, p) : fn \in {"addTask", "completeTask", "deleteTask"},
                    p \in {ParamsAbsent, ParamsNull, ParamsMap(Other),
                           ParamsMap(Str(<<" ", "a">>)), ParamsMap(Str(<<"A", " ">>)),
                           ParamsMap(Str(<<"b">>))} }
    \cup { Tool("viewTasks", ParamsAbsent), Tool("frobnicate", ParamsAbsent),
           NonObjectJson }

SentContents ==
    { <<J(doc)>> : doc \in SentTools }
    \cup { <<Backtick, Backtick, Backtick, Letter, Newline,
             J(Tool("addTask", ParamsMap(Str(<<"b">>)))), Newline,
             Backtick, Backtick, Backtick>>,
           <<Backtick, Backtick, Backtick, Letter, Blank,
             J(Tool("addTask", ParamsMap(Str(<<"b">>)))),
             Backtick, Backtick, Backtick>>,
           <<Letter>> }

Message == ObjectBody(Str(<<"b">>))

SentInputs ==
    { <<Message, o>> : o \in {CallRaises} \cup {Completion(c) : c \in SentContents} }
    \cup { <<ObjectBody(Other), Completion(<<Letter>>)>>,
           <<NoBody, Completion(<<J(Tool("viewTasks", ParamsAbsent))>>)>> }

TypeOK ==
    /\ next_id \in 1..(MaxId + 1)
    /\ Len(tasks) <= MaxId
    /\ openai_client \in BOOLEAN

Init ==
    /\ tasks = <<>>
    /\ next_id = 1
    /\ openai_client \in BOOLEAN
    /\ resp = NoResponse
    /\ assigned_ids = {}

\* One request, with the request bodies, conversational inputs and clock
\* readings drawn from the given sets.
Step(bodies, inputs, times) ==
    \/ GetTasks
    \/ \E body \in bodies, now \in times : CreateTask(body, now)
    \/ \E body \in bodies : CompleteTask(body)
    \/ \E body \in bodies : DeleteTask(body)
    \/ \E in \in inputs, now \in times : BrainExecute(in[1], in[2], now)

Next == Step(SentBodies, SentInputs, {0})

Spec == Init /\ [][Next]_vars

----------------------------------------------------------------------------
(* Vocabulary of the properties, stated without the model's strip and      *)
(* lower.                                                                  *)

SameLetter(c, d) == c = d \/ {c, d} \in {{"a", "A"}, {"b", "B"}}

\* s without its leading and trailing blanks.
Trimmed(s) ==
    LET nb == {i \in 1..Len(s) : s[i] # " "}
    IN IF nb = {} THEN <<>>
       ELSE SubSeq(s, CHOOSE i \in nb : \A k \in nb : i <= k,
                      CHOOSE i \in nb : \A k \in nb : k <= i)

\* x and y differ at most in letter case and surrounding blanks.
SameNormalized(x, y) ==
    LET a == Trimmed(x)
        b == Trimmed(y)
    IN Len(a) = Len(b) /\ \A i \in 1..Len(a) : SameLetter(a[i], b[i])

Matches(d) == {i \in 1..Len(tasks) : SameNormalized(tasks[i].description, d)}

\* The earliest-inserted task matching d (the one with the least id); 0 if none.
FirstMatch(d) ==
    IF Matches(d) = {} THEN 0
    ELSE CHOOSE i \in Matches(d) : \A j \in Matches(d) : tasks[i].id <= tasks[j].id

RemoveAt(seq, i) ==
    [j \in 1..(Len(seq) - 1) |-> IF j < i THEN seq[j] ELSE seq[j + 1]]

\* The conversational request whose LLM answer is exactly the JSON object tool.
Intent(tool, now) == brain_execute(Message, Completion(<<J(tool)>>), now)

\* The response is an executed tool intent that succeeded.
ToolOk(r) == r.status = 200 /\ r.body.mode = "tool" /\ get_ok(r.body.result)

DescriptionParams ==
    {ParamsAbsent} \cup {ParamsMap(v) : v \in FieldValues \ {Other}}

\* C1: a successful creation, by POST /api/tasks or by an addTask intent,
\* appends a task whose id is greater than every id assigned before, so is
\* the id of no task of the list and of no deleted task; the ids of the list
\* are pairwise distinct.
C1_IdsFresh ==
    LET Fresh(t) ==
          /\ Len(t) = Len(tasks) + 1
          /\ \A a \in assigned_ids \cup ids_of(tasks) : t[Len(t)].id > a
    IN /\ \A i, j \in 1..Len(tasks) : i < j => tasks[i].id < tasks[j].id
       /\ ids_of(tasks) \subseteq assigned_ids
       /\ \A body \in Bodies :
            LET r == create_task(body, 0) IN r.status = 201 => Fresh(r.tasks)
       /\ \A p \in DescriptionParams :
            LET x == execute_tool(Tool("addTask", p), 0)
            IN get_ok(x.result) => Fresh(x.tasks)

\* A task was created after a task with a smaller id had been deleted.
C1_Witness ==
    /\ resp.op = "POST" /\ resp.status = 201
    /\ tasks # <<>>
    /\ \E a \in assigned_ids \ ids_of(tasks) : a < tasks[Len(tasks)].id

\* C3: a successful delete by description removes the earliest-inserted task
\* whose normalized description equals the normalized request, and nothing
\* else: every other task keeps its fields and its place in the order.
C3_DeleteRemovesFirstMatchOnly ==
    \A d \in SampleStrings :
      LET r == delete_task_by_description(ObjectBody(Str(d)))
          x == execute_tool(Tool("deleteTask", ParamsMap(Str(d))), 0)
          first == FirstMatch(d)
          RemovedFirst(t) ==
            /\ first # 0
            /\ \A j \in Matches(d) : first <= j
            /\ Len(t) = Len(tasks) - 1
            /\ t = RemoveAt(tasks, first)
      IN /\ r.status = 200 => RemovedFirst(r.tasks) /\ r.next_id = next_id
         /\ get_ok(x.result) => RemovedFirst(x.tasks) /\ x.next_id = next_id

\* A delete succeeded and a task with the same normalized description stayed.
C3_Witness ==
    /\ resp.op = "DELETE" /\ resp.status = 200
    /\ \E i \in 1..Len(tasks) : SameNormalized(tasks[i].description, resp.desc)

\* C4: the lookup of every by-description operation returns the
\* earliest-inserted task whose trimmed, case-folded description equals the
\* trimmed, case-folded request, and not-found when there is none; requests
\* that differ only in case or surrounding blanks resolve to the same task.
C4_LookupFirstNormalizedMatch ==
    /\ \A d \in SampleStrings : find_task_by_desc(d) = FirstMatch(d)
    /\ \A d, e \in SampleStrings :
         SameNormalized(d, e) => find_task_by_desc(d) = find_task_by_desc(e)
    /\ \A d \in SampleStrings \ {<<>>, <<" ">>} :
         LET first == FirstMatch(d)
             patch == complete_task_by_description(ObjectBody(Str(d)))
             delete == delete_task_by_description(ObjectBody(Str(d)))
             complete == execute_tool(Tool("completeTask", ParamsMap(Str(d))), 0)
             remove == execute_tool(Tool("deleteTask", ParamsMap(Str(d))), 0)
         IN IF first = 0
            THEN /\ patch.status = 404 /\ delete.status = 404
                 /\ complete.result = [error |-> "not found"]
                 /\ remove.result = [error |-> "not found"]
            ELSE /\ patch.status = 200 /\ patch.body.id = tasks[first].id
                 /\ delete.status = 200
                 /\ ids_of(delete.tasks) = ids_of(tasks) \ {tasks[first].id}
                 /\ get_ok(complete.result)
                 /\ complete.result.task.id = tasks[first].id
                 /\ get_ok(remove.result)
                 /\ ids_of(remove.tasks) = ids_of(tasks) \ {tasks[first].id}

\* A complete resolved to the first of two tasks whose descriptions differ
\* in case only.
C4_Witness ==
    /\ resp.op = "PATCH" /\ resp.status = 200 /\ resp.changed
    /\ Len(tasks) = 2
    /\ tasks[1].completed /\ ~tasks[2].completed
    /\ tasks[1].description # tasks[2].description
    /\ SameNormalized(tasks[1].description, tasks[2].description)

\* C5: a complete by description that resolves to a task already completed
\* succeeds (200, ok) and leaves the task list and the id counter as they are.
C5_CompleteIdempotent ==
    \A d \in SampleStrings \ {<<>>, <<" ">>} :
      LET first == FirstMatch(d)
          patch == complete_task_by_description(ObjectBody(Str(d)))
          complete == execute_tool(Tool("completeTask", ParamsMap(Str(d))), 0)
      IN (first # 0 /\ tasks[first].completed) =>
           /\ patch.status = 200 /\ patch.body = tasks[first]
           /\ patch.tasks = tasks /\ patch.next_id = next_id
           /\ complete.result = [ok |-> TRUE, task |-> tasks[first]]
           /\ complete.tasks = tasks /\ complete.next_id = next_id

\* A completeTask intent succeeded on a task that was completed before it.
C5_Witness ==
    /\ resp.op = "brain" /\ resp.fn = "completeTask" /\ resp.result = "ok"
    /\ ~resp.changed

\* Message bodies brain_execute reads without raising.
ReadableMessages == {Message, NoBody, ObjectBody(Absent), ObjectBody(Null)}

\* C6: an addTask intent with a non-empty description, executed through the
\* conversational endpoint, leaves a list that GET /api/tasks shows as the
\* previous tasks, unchanged and in order, followed by one new task with
\* completed = false and the trimmed description of the intent.
C6_AddTaskRoundTrip ==
    openai_client =>
      \A d \in SampleStrings \ {<<>>, <<" ">>}, now \in Times, body \in ReadableMessages :
        LET tool == Tool("addTask", ParamsMap(Str(d)))
            r == brain_execute(body, Completion(<<J(tool)>>), now)
            shown == list_body(r.tasks).tasks
            new == shown[Len(shown)]
        IN /\ ToolOk(r)
           /\ Len(shown) = Len(tasks) + 1
           /\ SubSeq(shown, 1, Len(tasks)) = tasks
           /\ new.description = Trimmed(d) /\ ~new.completed
           /\ r.body.result.task = new

\* An addTask intent added a task behind the tasks that were there.
C6_Witness ==
    /\ resp.op = "brain" /\ resp.fn = "addTask" /\ resp.result = "ok" /\ resp.changed
    /\ Len(tasks) >= 2
    /\ tasks[1].completed

\* The fence-stripped completion is one JSON object naming a tool.
IsToolIntent(c) ==
    /\ Len(c) = 1 /\ c[1].c = "J"
    /\ c[1].j.t = "obj" /\ c[1].j.function \in ToolNames

\* C7: the router answers unavailable when no client is configured or the
\* call raises, tool intent when the fence-stripped completion is a JSON
\* object whose function is a tool name, and otherwise a text reply carrying
\* the fence-stripped completion; unless the answer is a tool intent the
\* conversational endpoint answers 200 in mode text and changes nothing.
C7_RouterClassifies ==
    \A o \in Outcomes :
      LET llm == llm_route(o)
          c == strip_fences(o.content)
      IN /\ llm.mode \in {"none", "text", "tool"}
         /\ llm.mode = "none" <=> (~openai_client \/ o.o = "raise")
         /\ llm.mode = "tool" <=> (openai_client /\ o.o = "content" /\ IsToolIntent(c))
         /\ llm.mode = "tool" => llm.tool = c[1].j
         /\ llm.mode = "text" => llm.reply = c
         /\ llm.mode # "tool" =>
              \A body \in ReadableMessages :
                LET r == brain_execute(body, o, 0)
                IN /\ r.status = 200 /\ r.body.mode = "text"
                   /\ llm.mode = "text" => r.body.reply.text = c
                   /\ r.tasks = tasks /\ r.next_id = next_id

\* The endpoint answered a text completion while the list held tasks.
C7_Witness ==
    /\ resp.op = "brain" /\ resp.status = 200 /\ resp.mode = "text"
    /\ resp.reply = "text" /\ ~resp.changed
    /\ tasks # <<>>

ConfirmationOf(fn) ==
    CASE fn = "addTask" -> "Added" [] fn = "completeTask" -> "Marked"
      [] fn = "deleteTask" -> "Deleted"

\* C9: the reply of an executed tool intent is the confirmation of its
\* function, quoting the description of the intent, exactly when an addTask,
\* completeTask or deleteTask succeeded; the number of tasks in the store
\* for viewTasks; and "OK" for a failed addTask, completeTask or deleteTask.
C9_ReplyFollowsResult ==
    \A tool \in DescriptionTools \cup ViewTools :
      LET r == Intent(tool, 0)
          fn == tool.function
      IN (r.status = 200 /\ r.body.mode = "tool") =>
           r.body.reply =
             IF fn = "viewTasks" THEN Reply("You have", <<>>, Len(r.tasks), <<>>)
             ELSE IF get_ok(r.body.result)
             THEN Reply(ConfirmationOf(fn), tool.parameters.description.s, 0, <<>>)
             ELSE Reply("OK", <<>>, 0, <<>>)

\* A deleteTask intent that found no task was answered "OK".
C9_Witness ==
    /\ resp.op = "brain" /\ resp.mode = "tool" /\ resp.fn = "deleteTask"
    /\ resp.result = "not found" /\ resp.reply = "OK"
    /\ tasks # <<>>

\* C2: POST /api/brain/execute answers 200 whatever the message and the LLM
\* outcome; a tool intent with missing or malformed parameters gets an error
\* result from the executor, and no exception escapes the handler.  Stated
\* for the requests whose message is text or missing.
C2_BrainAlwaysAnswers200 ==
    (resp.op = "brain" /\ resp.mode # "unread") =>
      resp.status = 200 /\ resp.result # "exception"

\* Request bodies whose description is missing or empty after trimming.
MissingDescriptionBodies ==
    { NoBody, NonObjectBody, ObjectBody(Absent), ObjectBody(Null),
      ObjectBody(Str(<<>>)), ObjectBody(Str(<<" ">>)) }

EmptyDescriptionParams ==
    { ParamsAbsent, ParamsMap(Absent), ParamsMap(Null), ParamsMap(Str(<<>>)),
      ParamsMap(Str(<<" ">>)) }

Unchanged(r) == r.tasks = tasks /\ r.next_id = next_id

\* What C8 says of the requests whose bodies are in the set bodies.
FailuresReported(bodies) ==
    /\ \A body \in bodies :
         \A r \in { create_task(body, 0), complete_task_by_description(body),
                    delete_task_by_description(body) } :
           r.status = 400 /\ "error" \in DOMAIN r.body /\ Unchanged(r)
    /\ \A d \in SampleStrings \ {<<>>, <<" ">>} :
         FirstMatch(d) = 0 =>
           /\ \A r \in { complete_task_by_description(ObjectBody(Str(d))),
                         delete_task_by_description(ObjectBody(Str(d))) } :
                r.status = 404 /\ "error" \in DOMAIN r.body /\ Unchanged(r)
           /\ \A fn \in {"completeTask", "deleteTask"} :
                LET x == execute_tool(Tool(fn, ParamsMap(Str(d))), 0)
                IN ~x.raised /\ x.result = [error |-> "not found"] /\ Unchanged(x)
    /\ \A p \in EmptyDescriptionParams :
         LET x == execute_tool(Tool("addTask", p), 0)
         IN ~x.raised /\ x.result = [error |-> "description required"] /\ Unchanged(x)
    /\ \A tool \in UnknownTools :
         LET x == execute_tool(tool, 0)
         IN ~x.raised /\ x.result = [error |-> "unknown"] /\ Unchanged(x)

\* C8: every failing operation reports its documented error and leaves the
\* task list and the id counter unchanged: 400 for a REST request whose
\* description is missing or empty after trimming, 404 for a PATCH or DELETE
\* that matches no task, and the executor's errors "description required",
\* "not found" and "unknown".
C8_FailuresReported == FailuresReported(MissingDescriptionBodies)

\* The same for the bodies that are JSON objects or carry no JSON at all.
FailuresReportedForObjects == FailuresReported(MissingDescriptionBodies \ {NonObjectBody})

----------------------------------------------------------------------------
(* The store under a clock that gives different readings.                  *)

ClockBodies ==
    { ObjectBody(Str(<<" ", "a">>)), ObjectBody(Str(<<"b">>)), ObjectBody(Str(<<" ">>)) }

ClockInputs ==
    { <<Message, Completion(<<J(Tool(fn, ParamsMap(Str(d))))>>)>> :
        fn \in {"addTask", "completeTask", "deleteTask"},
        d \in { <<"A", " ">>, <<"b">> } }
    \cup { <<Message, Completion(<<J(Tool("viewTasks", ParamsAbsent))>>)>>,
           <<Message, Completion(<<Letter>>)>> }

NextClock == Step(ClockBodies, ClockInputs, Times)

SpecClock == Init /\ [][NextClock]_vars

DeleteSucceeded(o) ==
    /\ o.result = "ok" /\ o.changed
    /\ o.op = "DELETE" \/ (o.op = "brain" /\ o.fn = "deleteTask")

\* C10: a task of the list keeps its id, description and created_at, its
\* description is non-empty and trimmed, its completed flag never goes back
\* to false, and it leaves the list only through a successful delete.
C10_TasksKeepTheirFields ==
    /\ [](\A i \in 1..Len(tasks) :
            /\ tasks[i].description # <<>>
            /\ Trimmed(tasks[i].description) = tasks[i].description)
    /\ [][\A i \in 1..Len(tasks) :
            \/ \E j \in 1..Len(tasks') :
                 /\ tasks'[j].id = tasks[i].id
                 /\ tasks'[j].description = tasks[i].description
                 /\ tasks'[j].created_at = tasks[i].created_at
                 /\ tasks[i].completed => tasks'[j].completed
            \/ /\ DeleteSucceeded(resp')
               /\ Len(tasks') = Len(tasks) - 1]_vars

\* A task created at a later reading than its successor was completed.
C10_Witness ==
    /\ resp.op = "PATCH" /\ resp.status = 200 /\ resp.changed
    /\ Len(tasks) = 2
    /\ tasks[1].created_at = 1 /\ tasks[2].created_at = 0
    /\ tasks[1].completed /\ ~tasks[2].completed

====
